---- MODULE Spec2Model ----
(***************************************************************************)
(* generate(num_molecules, model_dir, output_path) of                      *)
(* src/dmg/smiles_vae/generate.py as a state machine: one action per       *)
(* statement (or group of statements that cannot fail in between) of the   *)
(* function, one thread of control, an exception of any call leaving the   *)
(* function at once (the function has no try/except).                      *)
(*                                                                         *)
(* The collaborators the function calls (VAE, optimize_latent_vector,      *)
(* decode_latent_vector_sample, compute_property, Config) are not in the   *)
(* source at hand.  They are modelled as deterministic functions of their  *)
(* arguments and of the random generator's state, each of which may also   *)
(* raise: their results are symbolic terms (the latent vectors) or are     *)
(* chosen on first use and remembered (the decoder), so that nothing is    *)
(* assumed of them beyond being functions.                                 *)
(***************************************************************************)
EXTENDS Integers, Sequences, FiniteSets, TLC

VARIABLES
    num_molecules,  \* argument: the requested number of molecules
    checkpoint,     \* what model_dir/model_info.pth holds
    seed,           \* the seed the caller fixed before this call
    decoderDraws,   \* whether the decoder draws from the random generator
    run,            \* "first" or "second" call of generate
    previous,       \* outcome of the first call, once the second has begun
    pc,             \* the statement the call is at
    err,            \* the call whose exception left the function
    rng,            \* state of the process-wide random generator
    model_info,     \* local: the loaded metadata
    model,          \* local: the network
    initial_z,      \* local: the sampled latent vector
    optimized_z,    \* local: the optimized latent vector
    i,              \* iterations of the loop completed
    smiles,         \* local: string decoded in this iteration
    mol,            \* local: what the parser gave for it
    valid,          \* local: its validity label
    properties,     \* local: its property value
    data,           \* local: the three columns
    file,           \* content of output_path
    stdout,         \* status lines printed by this call
    returned,       \* value returned to the caller
    decMemo,        \* the decoder as a function, fixed on first use
    reads,          \* checkpoint files read by this call
    optimizeCalls,  \* calls of optimize_latent_vector by this call
    decodeArgs,     \* latent vector passed to each decode call
    decoded,        \* string returned by each decode call
    parsed,         \* string passed to each parser call
    scored,         \* string passed to each property call
    writes          \* writes of output_path by this call

vars == <<num_molecules, checkpoint, seed, decoderDraws, run, previous, pc, err,
          rng, model_info, model, initial_z, optimized_z, i, smiles, mol, valid,
          properties, data, file, stdout, returned, decMemo, reads,
          optimizeCalls, decodeArgs, decoded, parsed, scored, writes>>

inputs == <<num_molecules, checkpoint, decoderDraws>>
locals == <<model_info, model, initial_z, optimized_z, i, smiles, mol, valid,
            properties, data>>
history == <<reads, optimizeCalls, decodeArgs, decoded, parsed, scored, writes>>

(***************************************************************************)
(* Bounds of the model.                                                    *)
(***************************************************************************)
MaxN == 3
MaxVocab == 1
MaxLen == 2
NumSeeds == 2

(***************************************************************************)
(* Program constants: optimize_latent_vector(..., num_steps=100, lr=1e-2). *)
(***************************************************************************)
num_steps == 100
lr == "1e-2"

Seeds == 1..NumSeeds

\* Strings the decoder can return: one the parser accepts, one it rejects.
Strings == {"CCO", "C("}

Checkpoints ==
    [vocab_size : 0..MaxVocab, max_length : 0..MaxLen, pad_in_map : BOOLEAN]

NoInfo == [loaded |-> FALSE]
NoModel == [built |-> FALSE]
NoZ == [op |-> "none"]
NoMol == [parsed |-> FALSE]
NoFile == [exists |-> FALSE]
NoValue == [returned |-> FALSE]
NoRun == [ran |-> FALSE]
\* A file opened for writing into which nothing was written.
Truncated == [exists |-> TRUE, header |-> <<>>, lines |-> <<>>]
\* The dict of line 41, in insertion order of its keys.
ColumnNames == <<"Generated_SMILES", "Validity", "QED">>
EmptyData == [c \in {ColumnNames[k] : k \in 1..Len(ColumnNames)} |-> <<>>]

(***************************************************************************)
(* Library and collaborator functions.                                     *)
(***************************************************************************)
\* Chem.MolFromSmiles: a molecule, or None for a string it cannot parse.
MolFromSmiles(s) ==
    IF s = "CCO" THEN [parsed |-> TRUE, of |-> s] ELSE NoMol

\* Python truth value of what MolFromSmiles returned: None is false, a Mol true.
Truthy(m) == m.parsed

\* Mutant: the two labels the wrong way round.
ValidityLabelSwapped(m) == IF Truthy(m) THEN "Invalid" ELSE "Valid"

\* 'Valid' if mol else 'Invalid'
ValidityLabel(m) == IF Truthy(m) THEN "Valid" ELSE "Invalid"

\* compute_property: the score of a string, in hundredths.
compute_property(s) ==
    IF s = "CCO" THEN 41 ELSE 0

\* VAE(vocab_size, embed_size, latent_dim, max_length, pad_idx) raises for an
\* empty vocabulary or a decode horizon below 1.
VAERejects(vocab_size, horizon) == vocab_size = 0 \/ horizon < 1

\* Mutant: max_length itself is handed to VAE as the horizon.
HorizonFull(max_length) == max_length

\* Line 36: the decode horizon handed to VAE is max_length - 1.
Horizon(max_length) == max_length - 1

\* Mutant: the loop runs one iteration too many (range(num_molecules + 1)).
RangeHasNextInclusive(k, n) == k <= n

\* Mutant: the body runs once before the count is looked at.
RangeHasNextDoWhile(k, n) == k < n \/ k = 0

\* Line 42: range(num_molecules) has a next value after k iterations.
RangeHasNext(k, n) == k < n

\* Mutant: a rejected string is decoded again instead of being recorded.
NextAfterParseRetry(m) == IF Truthy(m) THEN "property" ELSE "decode"

\* Lines 46-48: whatever the parser gave, the next statement is the call of
\* compute_property; mol is used for the label alone.
NextAfterParse(m) == "property"

\* Mutant: the latent vector is drawn from a generator of the call's own,
\* which the caller's seed does not reach.
RandnUnseeded(g) == [op |-> "randn", seed |-> run, at |-> g.draws]

\* torch.randn under the generator's state: a term naming seed and position.
Randn(g) == [op |-> "randn", seed |-> g.seed, at |-> g.draws]

\* The generator after one more draw.
Advance(g) == [g EXCEPT !.draws = @ + 1]

\* optimize_latent_vector(model, z, num_steps, lr): a term of its arguments.
OptimizeLatentVector(m, z, steps, rate) ==
    [op |-> "optimized", from |-> z, weights |-> m.weights, steps |-> steps,
     rate |-> rate]

\* pd.DataFrame(data): the columns in the dict's insertion order, and the rows.
ColumnsAligned(d) ==
    /\ Len(d["Generated_SMILES"]) = Len(d["Validity"])
    /\ Len(d["Validity"]) = Len(d["QED"])

DataFrame(d) ==
    [columns |-> ColumnNames,
     rows |-> [k \in 1..Len(d["Generated_SMILES"]) |->
                  <<d["Generated_SMILES"][k], d["Validity"][k], d["QED"][k]>>]]

\* Mutant: to_csv with its default index=True, which writes the row index as
\* a first, unnamed column.
ToCsvWithIndex(df) ==
    [exists |-> TRUE,
     header |-> <<"">> \o df.columns,
     lines |-> [k \in 1..Len(df.rows) |->
                  <<ToString(k - 1), df.rows[k][1], df.rows[k][2],
                    ToString(df.rows[k][3])>>]]

\* df.to_csv(output_path, index=False): a header line and one line of text
\* fields per row; a number is written in decimal.
ToCsv(df) ==
    [exists |-> TRUE,
     header |-> df.columns,
     lines |-> [k \in 1..Len(df.rows) |->
                  <<df.rows[k][1], df.rows[k][2], ToString(df.rows[k][3])>>]]

(***************************************************************************)
(* The call.                                                               *)
(***************************************************************************)
FreshLocals ==
    /\ model_info = NoInfo
    /\ model = NoModel
    /\ initial_z = NoZ
    /\ optimized_z = NoZ
    /\ i = 0
    /\ smiles = ""
    /\ mol = NoMol
    /\ valid = ""
    /\ properties = 0
    /\ data = EmptyData

FreshHistory ==
    /\ reads = 0
    /\ optimizeCalls = 0
    /\ decodeArgs = <<>>
    /\ decoded = <<>>
    /\ parsed = <<>>
    /\ scored = <<>>
    /\ writes = 0

Init ==
    /\ num_molecules \in (0 - 1)..MaxN
    /\ checkpoint \in Checkpoints
    /\ seed \in Seeds
    /\ decoderDraws \in BOOLEAN
    /\ run = "first"
    /\ previous = NoRun
    /\ pc = "load_info"
    /\ err = "none"
    /\ rng = [seed |-> seed, draws |-> 0]
    /\ FreshLocals
    /\ FreshHistory
    /\ file = NoFile
    /\ stdout = <<>>
    /\ returned = NoValue
    /\ decMemo = <<>>

\* Mutant: the exception is caught and the function goes on to write what it
\* has.
RaiseSwallowed(what) ==
    /\ pc' = "to_csv"
    /\ err' = what

\* An exception of the call named `what` leaves generate: nothing else changes.
Raise(what) ==
    /\ pc' = "raised"
    /\ err' = what

\* Lines 25-34: Config(), torch.load(model_info.pth) and the key lookups.
LoadModelInfo ==
    /\ pc = "load_info"
    /\ \E ok \in BOOLEAN :
          IF ok
          THEN /\ model_info' = [loaded |-> TRUE] @@ checkpoint
               /\ reads' = reads + 1
               /\ pc' = "construct"
               /\ UNCHANGED err
          ELSE /\ Raise("load_info")
               /\ UNCHANGED <<model_info, reads>>
    /\ UNCHANGED <<inputs, seed, run, previous, rng, model, initial_z,
                   optimized_z, i, smiles, mol, valid, properties, data, file,
                   stdout, returned, decMemo, optimizeCalls, decodeArgs,
                   decoded, parsed, scored, writes>>

\* Lines 35-37: char_to_idx[pad_token] and VAE(...).to(device).
ConstructModel ==
    /\ pc = "construct"
    /\ IF \/ ~model_info.pad_in_map
          \/ VAERejects(model_info.vocab_size, Horizon(model_info.max_length))
       THEN /\ Raise("construct")
            /\ UNCHANGED model
       ELSE /\ model' = [built |-> TRUE, weights |-> "initial"]
            /\ pc' = "load_weights"
            /\ UNCHANGED err
    /\ UNCHANGED <<inputs, seed, run, previous, rng, model_info, initial_z,
                   optimized_z, i, smiles, mol, valid, properties, data, file,
                   stdout, returned, decMemo, history>>

\* Line 38: model.load_state_dict(torch.load(vae_model.pth)).
LoadStateDict ==
    /\ pc = "load_weights"
    /\ \E ok \in BOOLEAN :
          IF ok
          THEN /\ model' = [model EXCEPT !.weights = "trained"]
               /\ reads' = reads + 1
               /\ pc' = "sample"
               /\ UNCHANGED err
          ELSE /\ Raise("load_weights")
               /\ UNCHANGED <<model, reads>>
    /\ UNCHANGED <<inputs, seed, run, previous, rng, model_info, initial_z,
                   optimized_z, i, smiles, mol, valid, properties, data, file,
                   stdout, returned, decMemo, optimizeCalls, decodeArgs,
                   decoded, parsed, scored, writes>>

\* Line 39: initial_z = torch.randn(1, latent_dim).to(device).
SampleLatent ==
    /\ pc = "sample"
    /\ initial_z' = Randn(rng)
    /\ rng' = Advance(rng)
    /\ pc' = "optimize"
    /\ UNCHANGED <<inputs, seed, run, previous, err, model_info, model,
                   optimized_z, i, smiles, mol, valid, properties, data, file,
                   stdout, returned, decMemo, history>>

\* Line 40: optimized_z = optimize_latent_vector(model, initial_z, 100, 1e-2).
\* The optimizer may work on the tensor initial_z names (which then holds the
\* optimized vector too) or on a copy of it.
OptimizeLatent ==
    /\ pc = "optimize"
    /\ \E ok \in BOOLEAN :
          IF ok
          THEN /\ optimized_z' =
                      OptimizeLatentVector(model, initial_z, num_steps, lr)
               /\ \E inplace \in BOOLEAN :
                     initial_z' = IF inplace THEN optimized_z' ELSE initial_z
               /\ optimizeCalls' = optimizeCalls + 1
               /\ pc' = "init_data"
               /\ UNCHANGED err
          ELSE /\ Raise("optimize")
               /\ UNCHANGED <<initial_z, optimized_z, optimizeCalls>>
    /\ UNCHANGED <<inputs, seed, run, previous, rng, model_info, model,
                   i, smiles, mol, valid, properties, data, file,
                   stdout, returned, decMemo, reads, decodeArgs, decoded,
                   parsed, scored, writes>>

\* Line 41: data = {'Generated_SMILES': [], 'Validity': [], 'QED': []}.
InitData ==
    /\ pc = "init_data"
    /\ data' = EmptyData
    /\ i' = 0
    /\ pc' = "loop"
    /\ UNCHANGED <<inputs, seed, run, previous, err, rng, model_info, model,
                   initial_z, optimized_z, smiles, mol, valid, properties, file,
                   stdout, returned, decMemo, history>>

\* Line 42: for _ in range(num_molecules).
LoopHead ==
    /\ pc = "loop"
    /\ pc' = IF RangeHasNext(i, num_molecules) THEN "decode" ELSE "to_csv"
    /\ UNCHANGED <<inputs, seed, run, previous, err, rng, locals, file, stdout,
                   returned, decMemo, history>>

\* Mutant: the decoder is handed the vector that was sampled.
DecodeInputInitial == initial_z

\* Line 44: the latent vector handed to the decoder.
DecodeInput == optimized_z

\* Lines 43-45: smiles = decode_latent_vector_sample(model, optimized_z, ...).
\* The decoder is a function of the latent vector and the generator's state.
Decode ==
    /\ pc = "decode"
    /\ \E ok \in BOOLEAN :
          IF ok
          THEN LET key == <<DecodeInput, rng>> IN
               /\ \E s \in Strings :
                     /\ key \in DOMAIN decMemo => s = decMemo[key]
                     /\ smiles' = s
                     /\ decoded' = Append(decoded, s)
                     /\ decMemo' = IF key \in DOMAIN decMemo
                                   THEN decMemo
                                   ELSE decMemo @@ (key :> s)
               /\ decodeArgs' = Append(decodeArgs, DecodeInput)
               /\ rng' = IF decoderDraws THEN Advance(rng) ELSE rng
               /\ pc' = "parse"
               /\ UNCHANGED err
          ELSE /\ Raise("decode")
               /\ UNCHANGED <<smiles, decoded, decMemo, decodeArgs, rng>>
    /\ UNCHANGED <<inputs, seed, run, previous, model_info, model, initial_z,
                   optimized_z, i, mol, valid, properties, data, file, stdout,
                   returned, reads, optimizeCalls, parsed, scored, writes>>

\* Lines 46-47: mol = Chem.MolFromSmiles(smiles); valid = 'Valid' if mol else
\* 'Invalid'.
Parse ==
    /\ pc = "parse"
    /\ mol' = MolFromSmiles(smiles)
    /\ valid' = ValidityLabel(MolFromSmiles(smiles))
    /\ parsed' = Append(parsed, smiles)
    /\ pc' = NextAfterParse(MolFromSmiles(smiles))
    /\ UNCHANGED <<inputs, seed, run, previous, err, rng, model_info, model,
                   initial_z, optimized_z, i, smiles, properties, data, file,
                   stdout, returned, decMemo, reads, optimizeCalls, decodeArgs,
                   decoded, scored, writes>>

\* Line 48: properties = compute_property(smiles).
ComputeProperty ==
    /\ pc = "property"
    /\ \E ok \in BOOLEAN :
          IF ok
          THEN /\ properties' = compute_property(smiles)
               /\ scored' = Append(scored, smiles)
               /\ pc' = "append_smiles"
               /\ UNCHANGED err
          ELSE /\ Raise("property")
               /\ UNCHANGED <<properties, scored>>
    /\ UNCHANGED <<inputs, seed, run, previous, rng, model_info, model,
                   initial_z, optimized_z, i, smiles, mol, valid, data, file,
                   stdout, returned, decMemo, reads, optimizeCalls, decodeArgs,
                   decoded, parsed, writes>>

\* Line 49: data['Generated_SMILES'].append(smiles).
AppendSmiles ==
    /\ pc = "append_smiles"
    /\ data' = [data EXCEPT !["Generated_SMILES"] = Append(@, smiles)]
    /\ pc' = "append_validity"
    /\ UNCHANGED <<inputs, seed, run, previous, err, rng, model_info, model,
                   initial_z, optimized_z, i, smiles, mol, valid, properties,
                   file, stdout, returned, decMemo, history>>

\* Mutant: the label is put at the front of its column (insert(0, valid)).
AppendValidityFront ==
    /\ pc = "append_validity"
    /\ data' = [data EXCEPT !["Validity"] = <<valid>> \o @]
    /\ pc' = "append_qed"
    /\ UNCHANGED <<inputs, seed, run, previous, err, rng, model_info, model,
                   initial_z, optimized_z, i, smiles, mol, valid, properties,
                   file, stdout, returned, decMemo, history>>

\* Line 50: data['Validity'].append(valid).
AppendValidity ==
    /\ pc = "append_validity"
    /\ data' = [data EXCEPT !["Validity"] = Append(@, valid)]
    /\ pc' = "append_qed"
    /\ UNCHANGED <<inputs, seed, run, previous, err, rng, model_info, model,
                   initial_z, optimized_z, i, smiles, mol, valid, properties,
                   file, stdout, returned, decMemo, history>>

\* Line 51: data['QED'].append(properties); the iteration is complete.
AppendQED ==
    /\ pc = "append_qed"
    /\ data' = [data EXCEPT !["QED"] = Append(@, properties)]
    /\ i' = i + 1
    /\ pc' = "loop"
    /\ UNCHANGED <<inputs, seed, run, previous, err, rng, model_info, model,
                   initial_z, optimized_z, smiles, mol, valid, properties, file,
                   stdout, returned, decMemo, history>>

\* Lines 53-54: df = pd.DataFrame(data); df.to_csv(output_path, index=False).
\* DataFrame raises ValueError for columns of different lengths; to_csv raises
\* when the path cannot be opened for writing (the file is as it was) or when
\* writing fails once the path is open (the file is left truncated).
WriteCsv ==
    /\ pc = "to_csv"
    /\ IF ~ColumnsAligned(data)
       THEN /\ Raise("dataframe")
            /\ UNCHANGED <<file, writes>>
       ELSE \E ok \in BOOLEAN :
               IF ok
               THEN /\ file' = ToCsv(DataFrame(data))
                    /\ writes' = writes + 1
                    /\ pc' = "print"
                    /\ UNCHANGED err
               ELSE /\ Raise("to_csv")
                    /\ \/ UNCHANGED <<file, writes>>
                       \/ /\ file' = Truncated
                          /\ writes' = writes + 1
    /\ UNCHANGED <<inputs, seed, run, previous, rng, locals, stdout, returned,
                   decMemo, reads, optimizeCalls, decodeArgs, decoded, parsed,
                   scored>>

\* Line 55: print(f'Generated molecules saved to {output_path}').
PrintStatus ==
    /\ pc = "print"
    /\ stdout' = Append(stdout, "Generated molecules saved to output_path")
    /\ pc' = "return"
    /\ UNCHANGED <<inputs, seed, run, previous, err, rng, locals, file,
                   returned, decMemo, history>>

\* Line 57: return data.
Return ==
    /\ pc = "return"
    /\ returned' = data
    /\ pc' = "done"
    /\ UNCHANGED <<inputs, seed, run, previous, err, rng, locals, file, stdout,
                   decMemo, history>>

\* The caller fixes a seed and calls generate again with the same arguments:
\* the file of the first call is still at output_path.
CallAgain ==
    /\ pc \in {"done", "raised"}
    /\ run = "first"
    /\ run' = "second"
    /\ previous' = [ran |-> TRUE, completed |-> pc = "done", seed |-> seed,
                    returned |-> returned, file |-> file]
    /\ \E s \in Seeds :
          /\ seed' = s
          /\ rng' = [seed |-> s, draws |-> 0]
    /\ pc' = "load_info"
    /\ err' = "none"
    /\ model_info' = NoInfo
    /\ model' = NoModel
    /\ initial_z' = NoZ
    /\ optimized_z' = NoZ
    /\ i' = 0
    /\ smiles' = ""
    /\ mol' = NoMol
    /\ valid' = ""
    /\ properties' = 0
    /\ data' = EmptyData
    /\ stdout' = <<>>
    /\ returned' = NoValue
    /\ reads' = 0
    /\ optimizeCalls' = 0
    /\ decodeArgs' = <<>>
    /\ decoded' = <<>>
    /\ parsed' = <<>>
    /\ scored' = <<>>
    /\ writes' = 0
    /\ UNCHANGED <<inputs, file, decMemo>>

Next ==
    \/ LoadModelInfo
    \/ ConstructModel
    \/ LoadStateDict
    \/ SampleLatent
    \/ OptimizeLatent
    \/ InitData
    \/ LoopHead
    \/ Decode
    \/ Parse
    \/ ComputeProperty
    \/ AppendSmiles
    \/ AppendValidity
    \/ AppendQED
    \/ WriteCsv
    \/ PrintStatus
    \/ Return
    \/ CallAgain

Spec == Init /\ [][Next]_vars

(***************************************************************************)
(* Definitions the properties below share.                                 *)
(***************************************************************************)
Col(d, c) == d[c]
Rows(d) == Len(Col(d, "Generated_SMILES"))

\* The call is inside an iteration of the loop: a string has been decoded and
\* its record is not yet complete.
InIteration ==
    pc \in {"parse", "property", "append_smiles", "append_validity",
            "append_qed"}

\* The loop is over and nothing has failed.
PastLoop == pc \in {"to_csv", "print", "return", "done"}

\* What output_path held when this call began.
FileAtCall == IF run = "first" THEN NoFile ELSE previous.file

\* The calls whose failure the function meets before it writes anything.
FailuresBeforeWrite ==
    {"load_info", "construct", "load_weights", "optimize", "decode", "property"}

\* Reading a written file back: the number a decimal field stands for, and the
\* columns of the file's lines.
NumberOf(text) == CHOOSE n \in 0..100 : ToString(n) = text

ReadCsv(f) ==
    [c \in {f.header[k] : k \in 1..Len(f.header)} |->
        [k \in 1..Len(f.lines) |->
            LET at == CHOOSE j \in 1..Len(f.header) : f.header[j] = c
            IN  IF c = "QED" THEN NumberOf(f.lines[k][at]) ELSE f.lines[k][at]]]

IsPrefix(s, u) == Len(s) <= Len(u) /\ \A k \in 1..Len(s) : s[k] = u[k]

(***************************************************************************)
(* C1.  For every requested count N >= 0 and every mix of parseable and    *)
(* unparseable decoded strings, a call that completes has produced a table *)
(* of exactly N rows: each of the columns Generated_SMILES, Validity and   *)
(* QED has exactly N entries, in the returned value and in the file.       *)
(***************************************************************************)
C1_ExactlyNRows ==
    (pc = "done" /\ num_molecules >= 0) =>
        /\ \A c \in DOMAIN returned : Len(returned[c]) = num_molecules
        /\ DOMAIN returned = {"Generated_SMILES", "Validity", "QED"}
        /\ Len(file.lines) = num_molecules

C1_Witness ==
    /\ pc = "done"
    /\ num_molecules = MaxN
    /\ Rows(returned) = MaxN
    /\ \E j, k \in 1..MaxN :
          /\ returned["Validity"][j] = "Valid"
          /\ returned["Validity"][k] = "Invalid"

(***************************************************************************)
(* C2.  A string the parser rejects is no error of generate: the step from *)
(* the parser's rejection goes to the call of the property scorer on the   *)
(* same string, with the label 'Invalid', with no error and no further     *)
(* decode call; the only failure open to the iteration is the scorer's own *)
(* exception, and when the scorer returns, the row (string, 'Invalid',     *)
(* property) is appended and the loop goes on to the next iteration.       *)
(***************************************************************************)
C2_RejectedStep ==
    (pc = "parse" /\ ~Truthy(MolFromSmiles(smiles))) =>
        /\ pc' = "property"
        /\ err' = "none"
        /\ valid' = "Invalid"
        /\ smiles' = smiles
        /\ decoded' = decoded
        /\ i' = i

C2_ScoredStep ==
    (pc = "property" /\ valid = "Invalid") =>
        \/ pc' = "raised" /\ err' = "property"
        \/ /\ pc' = "append_smiles"
           /\ err' = "none"
           /\ scored' = Append(scored, smiles)
           /\ decoded' = decoded

C2_RecordedStep ==
    (pc = "append_qed" /\ valid = "Invalid") =>
        /\ pc' = "loop"
        /\ err' = "none"
        /\ i' = i + 1
        /\ Rows(data') = i + 1
        /\ data'["Generated_SMILES"][i + 1] = smiles
        /\ data'["Validity"][i + 1] = "Invalid"
        /\ data'["QED"][i + 1] = properties
        /\ decoded' = decoded

C3_WrittenOnceAtEnd ==
    /\ writes <= 1
    /\ writes = 0 => file = FileAtCall
    /\ writes = 1 =>
          /\ ~RangeHasNext(i, num_molecules)
          /\ \A c \in DOMAIN data : Len(data[c]) = i
          /\ Len(decoded) = i
          /\ pc \in {"print", "return", "done", "raised"}
          /\ pc = "raised" => err = "to_csv"
    /\ pc \in {"print", "return", "done"} => writes = 1
    /\ err \in FailuresBeforeWrite =>
          /\ pc = "raised"
          /\ writes = 0
          /\ file = FileAtCall
          /\ stdout = <<>>
          /\ returned = NoValue
    /\ Len(stdout) <= 1
    /\ Len(stdout) = 1 => writes = 1

C3_Witness ==
    /\ run = "second"
    /\ previous.completed
    /\ pc = "raised"
    /\ err = "decode"
    /\ i = 1
    /\ num_molecules = MaxN
    /\ file = previous.file
    /\ Len(file.lines) = MaxN

(***************************************************************************)
(* C4.  On every completed call the file at the output path and the value  *)
(* returned hold the same data: the header is Generated_SMILES, Validity,  *)
(* QED in that order, the file has as many lines as the returned value has *)
(* rows, and line k read back gives row k of the returned value, which is  *)
(* the data as it was when the file was written.                           *)
(***************************************************************************)
C4_FileMatchesReturned ==
    pc = "done" =>
        /\ file.exists
        /\ file.header = <<"Generated_SMILES", "Validity", "QED">>
        /\ \A c \in DOMAIN returned : Len(file.lines) = Len(returned[c])
        /\ \A k \in 1..Len(file.lines) : Len(file.lines[k]) = 3
        /\ ReadCsv(file) = returned
        /\ returned = data

C4_Witness ==
    /\ pc = "done"
    /\ Len(file.lines) = 2
    /\ file.lines[1] = <<"C(", "Invalid", "0">>
    /\ file.lines[2] = <<"CCO", "Valid", "41">>
    /\ returned["QED"] = <<0, 41>>

(***************************************************************************)
(* C5.  With a molecule count of 0 the call still reads both checkpoint    *)
(* files and runs the optimization once, makes no decode, parse or         *)
(* property call, writes a file of the header alone and returns three      *)
(* empty columns.                                                          *)
(***************************************************************************)
C5_ZeroMolecules ==
    num_molecules = 0 =>
        /\ decoded = <<>> /\ decodeArgs = <<>> /\ parsed = <<>> /\ scored = <<>>
        /\ PastLoop => reads = 2 /\ optimizeCalls = 1
        /\ pc = "done" =>
              /\ file = [exists |-> TRUE,
                         header |-> <<"Generated_SMILES", "Validity", "QED">>,
                         lines |-> <<>>]
              /\ returned = [c \in {"Generated_SMILES", "Validity", "QED"} |-> <<>>]
              /\ writes = 1

C5_Witness ==
    /\ num_molecules = 0
    /\ pc = "done"
    /\ optimized_z.op = "optimized"
    /\ model.weights = "trained"

(***************************************************************************)
(* C6.  When the loaded checkpoint has an empty vocabulary or a maximum    *)
(* sequence length of at most 1, the call fails at the reconstruction of   *)
(* the architecture: it ends in an error before the latent vector is       *)
(* sampled or optimized, before any decode call, and without writing the   *)
(* output file.                                                            *)
(***************************************************************************)
C6_DegenerateCheckpointFails ==
    (/\ model_info # NoInfo
     /\ model_info.vocab_size = 0 \/ model_info.max_length <= 1) =>
        /\ pc \in {"construct", "raised"}
        /\ pc = "raised" => err = "construct"
        /\ model = NoModel
        /\ initial_z = NoZ
        /\ optimized_z = NoZ
        /\ rng.draws = 0
        /\ optimizeCalls = 0
        /\ decoded = <<>>
        /\ writes = 0
        /\ file = FileAtCall
        /\ returned = NoValue

C6_Witness ==
    /\ pc = "raised"
    /\ err = "construct"
    /\ model_info # NoInfo
    /\ model_info.pad_in_map
    /\ model_info.vocab_size > 0
    /\ model_info.max_length = 1

C7_OtherSeedOtherRows ==
    /\ run = "second"
    /\ pc = "done"
    /\ previous.completed
    /\ previous.seed # seed
    /\ returned # previous.returned

(***************************************************************************)
(* C8.  The latent vector is changed by the optimization step alone, which *)
(* is over before the first decode call: every decode call receives the    *)
(* one optimized vector, and decoding, parsing, scoring, appending and     *)
(* persisting leave the latent vector, the model and the loaded metadata   *)
(* as they are.                                                            *)
(***************************************************************************)
C8_DecodeSeesOptimized ==
    /\ \A k \in 1..Len(decodeArgs) : decodeArgs[k] = optimized_z
    /\ decodeArgs # <<>> => optimized_z.op = "optimized" /\ optimizeCalls = 1
    /\ optimizeCalls <= 1
    /\ optimized_z # NoZ =>
          /\ optimizeCalls = 1
          /\ optimized_z.from = Randn([seed |-> seed, draws |-> 0])
          /\ optimized_z.steps = 100
          /\ optimized_z.weights = "trained"

C8_FrameStep ==
    (pc \notin {"load_info", "construct", "load_weights", "sample", "optimize",
                "done", "raised"}) =>
        UNCHANGED <<initial_z, optimized_z, model, model_info, checkpoint>>

C8_OnlyOptimizeChanges ==
    (optimized_z' # optimized_z) =>
        \/ pc = "optimize" /\ pc' = "init_data"
        \/ pc \in {"done", "raised"} /\ pc' = "load_info"

C8_LatentReadOnly ==
    /\ []C8_DecodeSeesOptimized
    /\ [][C8_FrameStep /\ C8_OnlyOptimizeChanges]_vars

C8_Witness ==
    /\ pc = "done"
    /\ Len(decodeArgs) = MaxN
    /\ initial_z # optimized_z
    /\ decodeArgs[1] = optimized_z
    /\ decodeArgs[MaxN] = optimized_z

(***************************************************************************)
(* C9.  The loop makes one decode call per iteration, never more than the  *)
(* requested count, and keeps the columns aligned: after k completed       *)
(* iterations each column has k entries, row j holds the string of the     *)
(* j-th decode call with the label and the property computed from that     *)
(* string, and rows are only ever appended.                                *)
(***************************************************************************)
C9_Aligned ==
    /\ Len(decoded) <= (IF num_molecules > 0 THEN num_molecules ELSE 0)
    /\ i <= Len(decoded) /\ Len(decoded) <= i + 1
    /\ pc # "raised" => Len(decoded) = i + (IF InIteration THEN 1 ELSE 0)
    /\ (pc \in {"loop", "decode"} \/ PastLoop) =>
          \A c \in DOMAIN data : Len(data[c]) = i
    /\ \A c \in DOMAIN data : i <= Len(data[c]) /\ Len(data[c]) <= i + 1
    /\ \A k \in 1..i :
          /\ data["Generated_SMILES"][k] = decoded[k]
          /\ parsed[k] = decoded[k]
          /\ scored[k] = decoded[k]
          /\ data["Validity"][k] = ValidityLabel(MolFromSmiles(decoded[k]))
          /\ data["QED"][k] = compute_property(decoded[k])
    /\ pc = "done" => returned = data /\ Rows(returned) = Len(decoded)

C9_AppendOnlyStep ==
    (pc \notin {"done", "raised"}) =>
        \A c \in DOMAIN data : IsPrefix(data[c], data'[c])

C9_OneDecodePerRow ==
    /\ []C9_Aligned
    /\ [][C9_AppendOnlyStep]_vars

C9_Witness ==
    /\ pc = "loop"
    /\ i = 2
    /\ num_molecules = MaxN
    /\ decoded = <<"CCO", "C(">>
    /\ data["Validity"] = <<"Valid", "Invalid">>
    /\ data["QED"] = <<41, 0>>

(***************************************************************************)
(* C10.  Every row's Validity is 'Valid' or 'Invalid', and it is 'Valid'   *)
(* exactly when the parser yields a molecule for the row's string: parsing *)
(* a recorded string again agrees with its recorded label.                 *)
(***************************************************************************)
LabelsAgree(d) ==
    \A k \in 1..Len(d["Validity"]) :
        /\ d["Validity"][k] \in {"Valid", "Invalid"}
        /\ d["Validity"][k] = "Valid" <=>
              MolFromSmiles(d["Generated_SMILES"][k]) # NoMol

C10_LabelMatchesParser ==
    /\ LabelsAgree(data)
    /\ pc = "done" =>
          /\ LabelsAgree(returned)
          /\ \A k \in 1..Len(file.lines) :
                file.lines[k][2] = "Valid" <=>
                    MolFromSmiles(file.lines[k][1]) # NoMol

C10_Witness ==
    /\ pc = "done"
    /\ returned["Generated_SMILES"] = <<"C(", "CCO", "C(">>
    /\ returned["Validity"] = <<"Invalid", "Valid", "Invalid">>

====
